---- MODULE Spec2Model ----
(***************************************************************************)
(* Model of the personalization pipeline of saksham1341/gthack:            *)
(*   app/masking.py  mask_pii / unmask_pii  (reversible PII tokenization)  *)
(*   app/chat.py     the six-node LangGraph workflow and process_message   *)
(*   app/context.py  enrich_context                                        *)
(*   app/rag.py      the profile and memory collections                    *)
(*                                                                         *)
(* TEXT.  A Python str is modelled as a sequence of lexemes (atoms).  An   *)
(* atom is a record [k, c, n]:                                             *)
(*   k = "val"  a maximal substring that one PII_PATTERNS regex matches    *)
(*              when it stands between word boundaries; c is the category  *)
(*              whose pattern matches it, n tells distinct strings apart   *)
(*              (Val("phone",1) is e.g. "555-123-4567", Val("phone",2) is  *)
(*              "5559876543");                                             *)
(*   k = "tok"  the literal text "[<C>_<n>]", e.g. "[PHONE_1]", whether    *)
(*              written by mask_pii, typed by the user or produced by the  *)
(*              generation service;                                        *)
(*   k = "chr"  one ordinary character: c = "word" is a letter (a \w       *)
(*              character), c = "space" a blank or newline (not \w);       *)
(*   k = "lbl"  a fixed piece of template text that starts and ends with   *)
(*              a non-word character or stands at a line's end             *)
(*              ("Customer: ", "Recent conversation:\n", ...);             *)
(*   k = "txt"  a run of words free of sensitive values and of tokens,     *)
(*              starting and ending with a letter (a generated sentence).  *)
(* The values are taken in canonical formats, for which the four patterns  *)
(* are pairwise disjoint and no value is a substring of another value.     *)
(***************************************************************************)
EXTENDS Integers, Sequences, FiniteSets, TLC

\* ------------------------------------------------------------------ bounds
\* longest text handed to mask_pii by the masking harness
MaxLen == 3
\* number of chained mask_pii calls in the masking harness
MaxCalls == 2

\* ------------------------------------------------------------------- atoms
Val(c, n) == [k |-> "val", c |-> c, n |-> n]
Tok(c, n) == [k |-> "tok", c |-> c, n |-> n]
Chr(c) == [k |-> "chr", c |-> c, n |-> 0]
Lbl(c) == [k |-> "lbl", c |-> c, n |-> 0]
Txt(c) == [k |-> "txt", c |-> c, n |-> 0]
W == Chr("word")
SP == Chr("space")

\* PII_PATTERNS: the categories in the dict's (insertion) order.
PII_PATTERNS == <<"phone", "email", "ssn", "credit_card">>

\* \w at both ends of the atom's text: every value starts and ends with a
\* digit or a letter; a token starts with "[" and ends with "]".
IsWord(a) == a.k = "val" \/ a.k = "txt" \/ (a.k = "chr" /\ a.c = "word")

\* \b holds between positions i-1 and i of text (1-based, i in 1..Len+1)
\* where position i starts a value: the neighbour is absent or not \w.
BoundaryBefore(text, i) == i = 1 \/ ~IsWord(text[i - 1])
BoundaryAfter(text, i) == i = Len(text) \/ ~IsWord(text[i + 1])

\* re.findall(pattern, text): the matched strings, left to right.  Every
\* pattern is anchored by \b on both sides, so a value glued to a letter or
\* to another value is not a match; no pattern matches token syntax.
RECURSIVE FindFrom(_, _, _)
FindFrom(c, text, i) ==
  IF i > Len(text) THEN <<>>
  ELSE IF text[i].k = "val" /\ text[i].c = c
          /\ BoundaryBefore(text, i) /\ BoundaryAfter(text, i)
       THEN <<text[i]>> \o FindFrom(c, text, i + 1)
       ELSE FindFrom(c, text, i + 1)

FindAll(c, text) == FindFrom(c, text, 1)

\* str.replace(old, new, 1): the first occurrence of old as a substring,
\* which needs no word boundary.
FirstIndex(text, a) ==
  IF \E i \in 1..Len(text) : text[i] = a
  THEN CHOOSE i \in 1..Len(text) : text[i] = a /\ \A j \in 1..(i - 1) : text[j] # a
  ELSE 0

ReplaceFirst(text, old, new) ==
  IF FirstIndex(text, old) = 0 THEN text
  ELSE [text EXCEPT ![FirstIndex(text, old)] = new]

\* str.replace(old, new): every occurrence.
ReplaceAll(text, old, new) ==
  [i \in 1..Len(text) |-> IF text[i] = old THEN new ELSE text[i]]

\* ----------------------------------------------------------------- mapping
\* A Python dict {token: original}: a sequence of items in insertion order.
HasKey(mapping, key) == \E i \in 1..Len(mapping) : mapping[i].token = key

\* mapping[key] = value: overwrite in place, or insert at the end.
DictSet(mapping, key, value) ==
  IF HasKey(mapping, key)
  THEN [i \in 1..Len(mapping) |->
          IF mapping[i].token = key THEN [token |-> key, value |-> value]
          ELSE mapping[i]]
  ELSE Append(mapping, [token |-> key, value |-> value])

\* numbering that starts over in every call
ExistingCountFromZero(mapping, c) == 0

\* sum(1 for k in mapping if k.startswith(f"[{pii_type.upper()}_"))
ExistingCount(mapping, c) ==
  Cardinality({i \in 1..Len(mapping) : mapping[i].token.c = c})

\* for i, match in enumerate(matches): token, mapping[token] = match,
\* masked_text = masked_text.replace(match, token, 1).  st carries the
\* running masked_text and mapping, and log, the tokens assigned so far.
RECURSIVE MaskMatches(_, _, _, _, _)
MaskMatches(c, matches, i, existing_count, st) ==
  IF i > Len(matches) THEN st
  ELSE LET token == Tok(c, existing_count + (i - 1) + 1)
       IN MaskMatches(c, matches, i + 1, existing_count,
            [text |-> ReplaceFirst(st.text, matches[i], token),
             mapping |-> DictSet(st.mapping, token, matches[i]),
             log |-> Append(st.log, token)])

\* for pii_type, pattern in PII_PATTERNS.items(): ... on the current text.
RECURSIVE MaskCategories(_, _)
MaskCategories(ci, st) ==
  IF ci > Len(PII_PATTERNS) THEN st
  ELSE LET c == PII_PATTERNS[ci]
       IN MaskCategories(ci + 1,
            MaskMatches(c, FindAll(c, st.text), 1,
                        ExistingCount(st.mapping, c), st))

\* mask_pii(text, existing_mapping) -> (masked_text, mapping); log is the
\* sequence of tokens the call assigned, kept for the properties.
mask_pii(text, existing_mapping) ==
  MaskCategories(1, [text |-> text, mapping |-> existing_mapping, log |-> <<>>])

\* unmask_pii(text, mapping)
RECURSIVE UnmaskFrom(_, _, _)
UnmaskFrom(text, mapping, i) ==
  IF i > Len(mapping) THEN text
  ELSE UnmaskFrom(ReplaceAll(text, mapping[i].token, mapping[i].value),
                  mapping, i + 1)

\* a loop that returns after its first item
unmask_pii_first_item(text, mapping) ==
  IF mapping = <<>> THEN text
  ELSE ReplaceAll(text, mapping[1].token, mapping[1].value)

unmask_pii(text, mapping) == UnmaskFrom(text, mapping, 1)

\* ------------------------------------------------------------------ inputs
\* The strings texts are made of: two phone numbers, an e-mail address, a
\* letter, a blank and the literal text "[PHONE_1]".
Alphabet ==
  {Val("phone", 1), Val("phone", 2), Val("email", 1), W, SP, Tok("phone", 1)}

\* The e-mail pattern's [\w.-]+ runs absorb adjacent word characters into a
\* longer address; texts keep an address between non-word neighbours so that
\* the atom is the whole match.
Lexed(text) ==
  \A i \in 1..Len(text) :
    (text[i].k = "val" /\ text[i].c = "email")
      => BoundaryBefore(text, i) /\ BoundaryAfter(text, i)

TextsOver(A, n) ==
  {t \in UNION {[1..m -> A] : m \in 0..n} : Lexed(t)}

TextsUpTo(n) == TextsOver(Alphabet, n)

\* ---------------------------------------------------- data and collaborators
None == [k |-> "None"]

\* datetime.now().strftime("%Y-%m-%d"): a date is the number of its day
Today == 20
Days == {Today, Today + 1}

\* a purchase_history of users.json, whose length the file does not limit
SeededPurchases(n) == [i \in 1..n |-> [item |-> "seeded", date |-> i]]

\* data/users.json: the static identity records (two known users; the
\* second comes with more than ten purchases).
StaticUsers ==
  [u1 |-> [user_id |-> "u1", name |-> <<W>>,
           preferences |-> [favorite_drinks |-> <<"latte">>, dietary |-> <<>>,
                            preferred_temperature |-> ""],
           purchase_history |-> <<>>, loyalty_points |-> 150],
   u2 |-> [user_id |-> "u2", name |-> <<W>>,
           preferences |-> [favorite_drinks |-> <<>>, dietary |-> <<"vegan">>,
                            preferred_temperature |-> "hot"],
           purchase_history |-> SeededPurchases(11), loyalty_points |-> 0]]

KnownUsers == DOMAIN StaticUsers

\* the identifiers a request may carry: a known one and an unknown one
UserIds == {"u1", "ghost"}

\* the identifiers the profile collection is asked about
ProfileIds == UserIds \cup KnownUsers

\* data/stores.json and data/promotions.json: store ids, and the distance in
\* metres of each store from the two request locations of the model.
MockStoreIds == <<"s1", "s2", "s3", "s4">>
Locations == {"loc_a", "loc_b"}
DistanceM ==
  [loc_a |-> [s1 |-> 320, s2 |-> 90, s3 |-> 700, s4 |-> 2100],
   loc_b |-> [s1 |-> 900, s2 |-> 1200, s3 |-> 650, s4 |-> 1800],
   loc_c |-> [s1 |-> 140, s2 |-> 140, s3 |-> 500, s4 |-> 900],
   loc_d |-> [s1 |-> 100, s2 |-> 200, s3 |-> 300, s4 |-> 400],
   loc_out |-> [s1 |-> 9000000, s2 |-> 9000100, s3 |-> 9000700, s4 |-> 9001000]]
PromotionsOf ==
  [s1 |-> <<"promo_1">>, s2 |-> <<"promo_2", "promo_3">>, s3 |-> <<>>,
   s4 |-> <<"promo_4">>]

\* a list left in the order it was built in
Unsorted(stores) == stores

\* nearby.sort(key=lambda x: x["distance_m"]): a stable insertion sort.
RECURSIVE InsertByDistance(_, _)
InsertByDistance(sorted, store) ==
  IF sorted = <<>> THEN <<store>>
  ELSE IF store.distance_m < Head(sorted).distance_m
       THEN <<store>> \o sorted
       ELSE <<Head(sorted)>> \o InsertByDistance(Tail(sorted), store)

RECURSIVE SortByDistance(_)
SortByDistance(stores) ==
  IF stores = <<>> THEN <<>>
  ELSE InsertByDistance(SortByDistance(SubSeq(stores, 1, Len(stores) - 1)),
                        stores[Len(stores)])

\* get_mock_stores(lat, lng, radius_m=500)
RECURSIVE MockWithin(_, _, _)
MockWithin(loc, radius_m, i) ==
  IF i > Len(MockStoreIds) THEN <<>>
  ELSE LET id == MockStoreIds[i]
       IN (IF DistanceM[loc][id] <= radius_m
           THEN <<[store_id |-> id, distance_m |-> DistanceM[loc][id], source |-> "mock"]>>
           ELSE <<>>) \o MockWithin(loc, radius_m, i + 1)

get_mock_stores(loc) == SortByDistance(MockWithin(loc, 500, 1))

\* fetch_live_stores(lat, lng): what the Overpass lookup can return for a
\* location when it answers: nothing, or venues already within its radius.
LiveAnswers ==
  {<<>>,
   <<[store_id |-> "live_1", distance_m |-> 410, source |-> "live"],
     [store_id |-> "live_2", distance_m |-> 60, source |-> "live"]>>}

fetch_live_stores(answer, ok) == IF ok THEN SortByDistance(answer) ELSE <<>>

\* get_store_promotions(store_id) for each nearby store, concatenated
RECURSIVE PromotionsFor(_)
PromotionsFor(stores) ==
  IF stores = <<>> THEN <<>>
  ELSE (IF Head(stores).store_id \in DOMAIN PromotionsOf
        THEN PromotionsOf[Head(stores).store_id] ELSE <<>>)
       \o PromotionsFor(Tail(stores))

\* a slice that keeps the whole list
KeepAll(s, n) == s

\* history[-6:], history[-10:], history[-5:]
LastN(s, n) == IF Len(s) <= n THEN s ELSE SubSeq(s, Len(s) - n + 1, Len(s))

\* _profile_to_doc(profile_data): the search document, as the values its
\* parts are written from.  A part is in the string when its value is not
\* empty (not zero); with no part the string is "No preferences set".
_profile_to_doc(profile_data) ==
  LET prefs == profile_data.preferences
      recent == LastN(profile_data.purchase_history, 5)
      doc == [favorite_drinks |-> prefs.favorite_drinks,
              dietary |-> prefs.dietary,
              temperature |-> prefs.preferred_temperature,
              recent_purchases |-> [i \in 1..Len(recent) |-> recent[i].item],
              loyalty_points |-> profile_data.loyalty_points]
  IN [parts |-> doc,
      placeholder |-> /\ doc.favorite_drinks = <<>>
                      /\ doc.dietary = <<>>
                      /\ doc.temperature = ""
                      /\ doc.recent_purchases = <<>>
                      /\ doc.loyalty_points = 0]

\* _seed_user_profiles(): one profile entry per user of users.json
SeedEntry(u) ==
  LET profile_data == [preferences |-> StaticUsers[u].preferences,
                       purchase_history |-> StaticUsers[u].purchase_history,
                       loyalty_points |-> StaticUsers[u].loyalty_points]
  IN [doc |-> _profile_to_doc(profile_data), profile_json |-> profile_data]

SeededProfiles == [u \in ProfileIds |-> IF u \in KnownUsers THEN SeedEntry(u) ELSE None]

\* get_user_profile_data(user_id)
get_user_profile_data(profiles, user_id) ==
  IF profiles[user_id] # None THEN profiles[user_id].profile_json ELSE None

\* a profile read from users.json alone
get_user_profile_static(profiles, user_id) ==
  IF user_id \notin KnownUsers THEN None
  ELSE LET static_user == StaticUsers[user_id]
       IN [user_id |-> static_user.user_id, name |-> static_user.name,
           preferences |-> static_user.preferences,
           purchase_history |-> static_user.purchase_history,
           loyalty_points |-> static_user.loyalty_points]

\* get_user_profile(user_id): static identity merged with the dynamic record
get_user_profile(profiles, user_id) ==
  IF user_id \notin KnownUsers THEN None
  ELSE LET static_user == StaticUsers[user_id]
           dynamic_data == get_user_profile_data(profiles, user_id)
           src == IF dynamic_data # None THEN dynamic_data ELSE static_user
       IN [user_id |-> static_user.user_id, name |-> static_user.name,
           preferences |-> src.preferences,
           purchase_history |-> src.purchase_history,
           loyalty_points |-> src.loyalty_points]

\* an enrichment that returns what the live lookup gave, empty or not
enrich_context_live_only(profiles, user_id, loc, use_mock_data, live_answer, live_ok) ==
  LET nearby_stores ==
        IF use_mock_data THEN get_mock_stores(loc)
        ELSE fetch_live_stores(live_answer, live_ok)
  IN [user |-> get_user_profile(profiles, user_id),
      nearby_stores |-> nearby_stores,
      promotions |-> IF use_mock_data THEN PromotionsFor(nearby_stores) ELSE <<>>]

\* enrich_context(user_id, lat, lng, use_mock_data) when no collaborator raises
enrich_context(profiles, user_id, loc, use_mock_data, live_answer, live_ok) ==
  LET live == fetch_live_stores(live_answer, live_ok)
      nearby_stores ==
        IF use_mock_data THEN get_mock_stores(loc)
        ELSE IF live # <<>> THEN live ELSE get_mock_stores(loc)
  IN [user |-> get_user_profile(profiles, user_id),
      nearby_stores |-> nearby_stores,
      promotions |-> IF use_mock_data THEN PromotionsFor(nearby_stores) ELSE <<>>]

\* "sep".join(texts)
RECURSIVE Join(_, _)
Join(texts, sep) ==
  IF texts = <<>> THEN <<>>
  ELSE IF Len(texts) = 1 THEN texts[1]
  ELSE texts[1] \o sep \o Join(Tail(texts), sep)

\* f"{msg['role'].upper()}: {msg['content']}" for each message
RoleLabel(role) == IF role = "user" THEN Lbl("USER: ") ELSE Lbl("ASSISTANT: ")

HistoryLines(history) ==
  [i \in 1..Len(history) |-> <<RoleLabel(history[i].role)>> \o history[i].content]

\* _build_context_string(context, rag_results, memories, history)
_build_context_string(context, rag_results, memories, history) ==
  LET user == context.user
      prefs == user.preferences
      parts ==
        (IF user # None
         THEN <<(<<Lbl("Customer: ")>> \o user.name)>>
              \o (IF prefs.favorite_drinks # <<>>
                  THEN <<(<<Lbl("Favorite drinks: ")>>)>> ELSE <<>>)
              \o (IF prefs.dietary # <<>>
                  THEN <<(<<Lbl("Dietary preferences: ")>>)>> ELSE <<>>)
              \o (IF prefs.preferred_temperature # ""
                  THEN <<(<<Lbl("Prefers: ")>>)>> ELSE <<>>)
              \o (IF user.loyalty_points # 0
                  THEN <<(<<Lbl("Loyalty points: ")>>)>> ELSE <<>>)
         ELSE <<>>)
        \o (IF memories # <<>>
            THEN <<(<<Lbl("Previous interactions: ")>> \o Join(memories, <<SP>>))>>
            ELSE <<>>)
        \o (IF context.nearby_stores # <<>>
            THEN <<(<<Lbl("Nearby stores: ")>>)>> ELSE <<>>)
        \o (IF context.promotions # <<>>
            THEN <<(<<Lbl("Available promotions: ")>>)>> ELSE <<>>)
        \o (IF rag_results # <<>>
            THEN <<(<<Lbl("Additional info: ")>> \o Join(rag_results, <<SP>>))>>
            ELSE <<>>)
        \o (IF history # <<>>
            THEN <<(<<Lbl("Recent conversation:")>> \o <<SP>>
                    \o Join(HistoryLines(LastN(history, 6)), <<SP>>))>>
            ELSE <<>>)
  IN Join(parts, <<SP>>)

\* ------------------------------------------------------------ profile store
\* update_user_profile(user_id, updates): read current, apply the recognised
\* keys, recompute the document, write once.  updates is a function whose
\* domain is the set of keys present.  collection.update() changes an entry
\* that exists and adds none.  MergeInto is the part between the read and
\* the write: current with the recognised keys applied.
\* current = {"preferences": {}, "purchase_history": [], "loyalty_points": 0}
EmptyProfile ==
  [preferences |-> [favorite_drinks |-> <<>>, dietary |-> <<>>,
                    preferred_temperature |-> ""],
   purchase_history |-> <<>>, loyalty_points |-> 0]

\* a list that takes the value whether or not it holds it
AddAlways(list, x) == Append(list, x)

\* if new_drink not in drinks: drinks.append(new_drink)
AddOnce(list, x) ==
  IF \E i \in 1..Len(list) : list[i] = x THEN list ELSE Append(list, x)

\* the five recognised keys applied to current, in the order of the code
ApplyUpdates(current, updates, today) ==
  LET prefs == current.preferences
      drinks == IF "add_favorite_drink" \in DOMAIN updates
                THEN AddOnce(prefs.favorite_drinks, updates["add_favorite_drink"])
                ELSE prefs.favorite_drinks
      dietary == IF "add_dietary" \in DOMAIN updates
                 THEN AddOnce(prefs.dietary, updates["add_dietary"])
                 ELSE prefs.dietary
      temperature == IF "set_temperature" \in DOMAIN updates
                     THEN updates["set_temperature"]
                     ELSE prefs.preferred_temperature
      history == IF "add_purchase" \in DOMAIN updates
                 THEN LastN(Append(current.purchase_history,
                                   [item |-> updates["add_purchase"], date |-> today]), 10)
                 ELSE current.purchase_history
      points == IF "add_loyalty_points" \in DOMAIN updates
                THEN current.loyalty_points + updates["add_loyalty_points"]
                ELSE current.loyalty_points
  IN [preferences |-> [favorite_drinks |-> drinks, dietary |-> dietary,
                       preferred_temperature |-> temperature],
      purchase_history |-> history, loyalty_points |-> points]

\* a merge that starts from the empty record whatever it read
MergeIntoFresh(read, updates, today) == ApplyUpdates(EmptyProfile, updates, today)

\* current = get_user_profile_data(user_id); if not current: current = {...}
MergeInto(read, updates, today) ==
  ApplyUpdates(IF read # None THEN read ELSE EmptyProfile, updates, today)

\* a write that renews the metadata and keeps the document it finds
CollectionUpdateKeepDoc(profiles, user_id, new) ==
  IF profiles[user_id] # None
  THEN [profiles EXCEPT ![user_id] = [doc |-> profiles[user_id].doc, profile_json |-> new]]
  ELSE profiles

\* a write that gives the new document and metadata to every entry
CollectionUpdateEveryId(profiles, user_id, new) ==
  [u \in DOMAIN profiles |->
     IF profiles[u] # None THEN [doc |-> _profile_to_doc(new), profile_json |-> new]
     ELSE None]

\* profile_collection.update(ids=[f"profile_{user_id}"], ...): the entry of
\* that id gets the new document and metadata; an id the collection does not
\* hold is left out and no entry is added.
CollectionUpdate(profiles, user_id, new) ==
  IF profiles[user_id] # None
  THEN [profiles EXCEPT ![user_id] = [doc |-> _profile_to_doc(new), profile_json |-> new]]
  ELSE profiles

update_user_profile(profiles, user_id, updates, today) ==
  CollectionUpdate(profiles, user_id,
                   MergeInto(get_user_profile_data(profiles, user_id), updates, today))

\* the keyword lists of add_learned_preference, in their order
dietary_keywords ==
  <<"vegan", "vegetarian", "gluten-free", "dairy-free", "healthy", "low-sugar", "keto">>
drink_keywords ==
  <<"coffee", "latte", "cappuccino", "espresso", "tea", "smoothie", "cocoa",
    "frappuccino", "matcha", "chai", "mocha", "americano">>

\* the loop without its break: the last keyword found stays
RECURSIVE LastKeyword(_, _, _)
LastKeyword(keywords, words, i) ==
  IF i > Len(keywords) THEN ""
  ELSE LET later == LastKeyword(keywords, words, i + 1)
       IN IF later # "" THEN later
          ELSE IF keywords[i] \in words THEN keywords[i] ELSE ""

\* for keyword in keywords: if keyword in text_lower: ...; break
RECURSIVE FirstKeyword(_, _, _)
FirstKeyword(keywords, words, i) ==
  IF i > Len(keywords) THEN ""
  ELSE IF keywords[i] \in words THEN keywords[i]
  ELSE FirstKeyword(keywords, words, i + 1)

\* add_learned_preference: the updates parsed from the fact.  words is the
\* set of keywords that occur in preference_text.lower().
LearnedUpdates(words) ==
  LET verb == "drink" \in words \/ "prefer" \in words \/ "like" \in words
      temp == IF "hot" \in words /\ verb THEN "hot"
              ELSE IF "cold" \in words /\ verb THEN "cold"
              ELSE IF "iced" \in words THEN "cold"
              ELSE ""
      diet == FirstKeyword(dietary_keywords, words, 1)
      drink == FirstKeyword(drink_keywords, words, 1)
      keys == (IF temp # "" THEN {"set_temperature"} ELSE {})
              \cup (IF diet # "" THEN {"add_dietary"} ELSE {})
              \cup (IF drink # "" THEN {"add_favorite_drink"} ELSE {})
  IN [key \in keys |->
        IF key = "set_temperature" THEN temp
        ELSE IF key = "add_dietary" THEN diet ELSE drink]

add_learned_preference(profiles, user_id, words, today) ==
  IF DOMAIN LearnedUpdates(words) # {}
  THEN update_user_profile(profiles, user_id, LearnedUpdates(words), today)
  ELSE profiles

\* ------------------------------------------------------------- memory store
\* an entry put in front of the collection
save_memory_in_front(memories, user_id, memory_type, content, timestamp) ==
  <<[id |-> <<user_id, memory_type, timestamp>>, user_id |-> user_id,
     memory_type |-> memory_type, content |-> content, timestamp |-> timestamp]>>
  \o memories

\* save_memory(user_id, memory_type, content) at time timestamp
\* save_memory(user_id, memory_type, content), timestamp being what
\* datetime.now().isoformat() read.  memory_collection.add of an id the
\* collection holds adds no entry.
save_memory(memories, user_id, memory_type, content, timestamp) ==
  LET memory_id == <<user_id, memory_type, timestamp>>
  IN IF \E i \in 1..Len(memories) : memories[i].id = memory_id
     THEN memories
     ELSE Append(memories,
                 [id |-> memory_id, user_id |-> user_id, memory_type |-> memory_type,
                  content |-> content, timestamp |-> timestamp])

\* a query without its where clause
AnyIndexes(memories, user_id) == 1..Len(memories)

\* retrieve_memories(user_id, query, n_results): the documents of n_results
\* entries (or all, when fewer) among those whose metadata user_id matches,
\* in the similarity order of the backend, which the model leaves open.
OwnIndexes(memories, user_id) ==
  {i \in 1..Len(memories) : memories[i].user_id = user_id}

Min(a, b) == IF a <= b THEN a ELSE b

retrieve_memories(memories, user_id, n_results) ==
  LET own == OwnIndexes(memories, user_id)
      k == Min(n_results, Cardinality(own))
  IN {[j \in 1..k |-> memories[order[j]].content] :
        order \in {o \in [1..k -> own] : \A a, b \in 1..k : a # b => o[a] # o[b]}}

\* ------------------------------------------------------------ knowledge base
\* the documents initialize_vectorstore() puts into store_info: one per
\* store of stores.json, then one per promotion of promotions.json
PromotionIds == <<"promo_1", "promo_2", "promo_3", "promo_4">>

KnowledgeBase ==
  [i \in 1..Len(MockStoreIds) |-> <<[k |-> "lbl", c |-> "Store: ", n |-> i]>>]
  \o [i \in 1..Len(PromotionIds) |-> <<[k |-> "lbl", c |-> "Promotion: ", n |-> i]>>]

Reverse(q) == [i \in 1..Len(q) |-> q[Len(q) + 1 - i]]

\* retrieve_relevant_info(query, n_results): the n_results documents nearest
\* to the query.  The similarity order belongs to the backend; the model
\* takes it from two rankings of the collection.
retrieve_relevant_info(n_results) ==
  LET k == Min(n_results, Len(KnowledgeBase))
  IN {SubSeq(KnowledgeBase, 1, k), SubSeq(Reverse(KnowledgeBase), 1, k)}

\* ------------------------------------------------------- the three collections
\* users.json as the store operations below read it: the users above and
\* one that has nothing set
StoreUsers ==
  [u \in KnownUsers \cup {"u3"} |->
     IF u = "u3"
     THEN [user_id |-> "u3", name |-> <<W>>,
           preferences |-> [favorite_drinks |-> <<>>, dietary |-> <<>>,
                            preferred_temperature |-> ""],
           purchase_history |-> <<>>, loyalty_points |-> 0]
     ELSE StaticUsers[u]]

StoreProfileIds == ProfileIds \cup DOMAIN StoreUsers

\* the in-memory client before initialize_vectorstore() ran
NoCollections ==
  [store |-> <<>>, profiles |-> [u \in StoreProfileIds |-> None], memories |-> <<>>]

\* _seed_user_profiles(): an entry for every user of users.json whose id
\* the collection does not hold
_seed_user_profiles(profiles, users) ==
  [u \in DOMAIN profiles |->
     IF profiles[u] # None THEN profiles[u]
     ELSE IF u \in DOMAIN users
     THEN LET profile_data == [preferences |-> users[u].preferences,
                               purchase_history |-> users[u].purchase_history,
                               loyalty_points |-> users[u].loyalty_points]
          IN [doc |-> _profile_to_doc(profile_data), profile_json |-> profile_data]
     ELSE None]

\* an initialisation that seeds whatever the collections hold
initialize_vectorstore_anew(db, users) ==
  [store |-> KnowledgeBase,
   profiles |-> _seed_user_profiles(NoCollections.profiles, users),
   memories |-> db.memories]

\* initialize_vectorstore(): the three collections are got or created; when
\* store_info holds a document nothing else is done; otherwise the store
\* and promotion documents are added and the profiles seeded.
initialize_vectorstore(db, users) ==
  IF Len(db.store) > 0 THEN db
  ELSE [store |-> db.store \o KnowledgeBase,
        profiles |-> _seed_user_profiles(db.profiles, users),
        memories |-> db.memories]

\* if profile_collection is None: initialize_vectorstore()
Opened(db, users) == IF db.store = <<>> THEN initialize_vectorstore(db, users) ELSE db

\* ------------------------------------------------------------------- state
VARIABLES
  mk_phase,   \* masking harness: "ready", "masked" or "unmasked"
  mk_n,       \* mask_pii calls made so far in the chain
  mk_in,      \* text given to the last mask_pii call
  mk_prev,    \* mapping given to the last mask_pii call
  mk_out,     \* masked text the last call returned
  mk_map,     \* mapping the last call returned
  mk_log,     \* tokens assigned by the calls of the chain, in order
  mk_un       \* unmask_pii(mk_out, mk_map), once computed

mkvars == <<mk_phase, mk_n, mk_in, mk_prev, mk_out, mk_map, mk_log, mk_un>>

MkInit ==
  /\ mk_phase = "ready"
  /\ mk_n = 0
  /\ mk_in = <<>>
  /\ mk_prev = <<>>
  /\ mk_out = <<>>
  /\ mk_map = <<>>
  /\ mk_log = <<>>
  /\ mk_un = <<>>

\* ------------------------------------------------- store and request state
VARIABLES
  retrieved,  \* the last retrieve_memories call: its arguments and result
  purchased,  \* the items given to add_purchase so far, per user, in order
  merges,     \* the update_user_profile calls made so far, in order
  snaps,      \* the profile collection before the first and after each call
  procs       \* concurrent update_user_profile calls: position and locals

storevars == <<retrieved, purchased, merges, snaps, procs>>

VARIABLES
  en_in,      \* the arguments and answers of the last enrich_context call
  en_out      \* what that call returned

envars == <<en_in, en_out>>

VARIABLES
  turn,       \* the /chat requests received so far
  request,    \* the request being served, or None
  before      \* the two user collections as the request found them

servevars == <<turn, request, before>>

VARIABLES
  learned     \* insight: what the service answered to the Learn prompt of the
              \* last /chat request or add_learned_preference call, after
              \* strip(), or None when it was not asked or did not answer

learnvars == <<learned>>

VARIABLES
  store_collection,  \* the documents of store_info; empty until initialize_vectorstore ran
  inits,             \* the initialize_vectorstore calls made after start-up
  saves              \* the save_memory calls made by the store operations

kbvars == <<store_collection, inits, saves>>

\* the request threads that run update_user_profile side by side, and the
\* user each of them writes to
Procs == {"p1", "p2"}
TargetOf == [p1 |-> "u1", p2 |-> "u2"]

\* a thread outside update_user_profile; done lists the calls it completed
IdleProc(done) ==
  [pc |-> "idle", updates |-> <<>>, today |-> 0, current |-> None, done |-> done]

AuxIdle ==
  /\ retrieved = None
  /\ purchased = [u \in KnownUsers |-> <<>>]
  /\ merges = <<>>
  /\ snaps = <<SeededProfiles>>
  /\ procs = [p \in Procs |-> IdleProc(<<>>)]
  /\ en_in = None
  /\ en_out = None
  /\ turn = 0
  /\ request = None
  /\ before = None
  /\ learned = None
  /\ inits = 0
  /\ saves = 0

\* after start-up: chat.py has called initialize_vectorstore() on import
AuxInit == AuxIdle /\ store_collection = KnowledgeBase

\* --------------------------------------------------------- pipeline inputs
\* longest user message of a request
MsgLen == 1
\* longest reply of the generation service
MaxReply == 2

PipeAlphabet == {Val("phone", 1), Val("email", 1), W, Tok("phone", 1)}
Messages == TextsOver(PipeAlphabet, MsgLen)

Histories ==
  {<<>>,
   <<[role |-> "user", content |-> <<Val("phone", 1)>>]>>,
   <<[role |-> "user", content |-> <<W>>],
     [role |-> "assistant", content |-> <<Val("email", 1)>>]>>}

\* "Error: GOOGLE_API_KEY not configured"
Sentinel == <<Lbl("Error: GOOGLE_API_KEY not configured")>>

\* what the generation service may answer to the Generate prompt: any short
\* text over the tokens of the mapping, a token-shaped marker that is not in
\* the mapping, and ordinary words
StrayToken == Tok("phone", 9)
Replies(mapping) ==
  LET A == {mapping[i].token : i \in 1..Len(mapping)} \cup {StrayToken, Txt("reply")}
  IN UNION {[1..m -> A] : m \in 0..MaxReply}

\* what the generation service may answer to the Learn prompt (after
\* strip()): the sentinel in two letter cases, nothing, a fact with keywords
\* and a fact without; words are the keywords found in the lower-cased text
Insights ==
  {[text |-> <<Lbl("NONE")>>, words |-> {}],
   [text |-> <<Lbl("none")>>, words |-> {}],
   [text |-> <<>>, words |-> {}],
   [text |-> <<Txt("Customer prefers iced latte")>>, words |-> {"prefer", "iced", "latte"}],
   [text |-> <<Txt("Customer is in a hurry")>>, words |-> {}]}

\* insight.upper()
Upper(text) ==
  [i \in 1..Len(text) |-> IF text[i] = Lbl("none") THEN Lbl("NONE") ELSE text[i]]

\* the memory collection a request may find: empty, or holding what an
\* earlier request of u1 with the message "555-123-4567" left behind
SummaryOf(user_message) ==
  <<Lbl("User asked about '")>> \o user_message
  \o <<Lbl("...', recommended based on their preferences.")>>

InitialMemories ==
  {<<>>,
   save_memory(
     save_memory(<<>>, "u1", "learned_fact", <<Txt("Customer prefers iced latte")>>, 1),
     "u1", "conversation_summary", SummaryOf(<<Val("phone", 1)>>), 2)}

\* the prompt of llm_generation_node and of persona_update_node
GeneratePrompt(st) ==
  <<Lbl("CUSTOMER CONTEXT & HISTORY:")>> \o <<SP>> \o st.masked_context
  \o <<SP>> \o <<Lbl("CUSTOMER MESSAGE: ")>> \o st.masked_message

LearnPrompt(st) ==
  <<Lbl("Customer message: ")>> \o st.user_message \o <<SP>>
  \o <<Lbl("Bot response: ")>> \o st.final_response \o <<SP>>
  \o <<Lbl("Current known preferences: ")>>

\* ---------------------------------------------------------- pipeline state
VARIABLES
  pc,                  \* the node about to run, "END", or "raised"
  state,               \* the ChatState threaded through the nodes
  api_key,             \* whether GOOGLE_API_KEY is set
  ran,                 \* the nodes that have completed, in order
  raised_at,           \* the node whose exception escaped, or "none"
  failed,              \* the collaborator calls that failed so far
  prompts,             \* the prompts handed to generate_content, in order
  result,              \* what process_message returned, or None
  profile_collection,  \* user id -> profile entry or None
  memory_collection,   \* the entries of user_memory, in insertion order
  now                  \* the clock read by save_memory

pipevars ==
  <<pc, state, api_key, ran, raised_at, failed, prompts, result,
    profile_collection, memory_collection, now>>

\* every variable outside the pipeline's own
auxvars == <<mkvars, storevars, envars, servevars, learnvars, kbvars>>

vars == <<mkvars, pipevars, storevars, envars, servevars, learnvars, kbvars>>

Nodes ==
  <<"context_enrichment", "rag_retrieval", "pii_masking", "llm_generation",
    "unmask_response", "persona_update">>

\* process_message: the initial ChatState
InitialState(user_id, message, loc, history, use_mock_data) ==
  [user_id |-> user_id, user_message |-> message, loc |-> loc,
   use_mock_data |-> use_mock_data, conversation_history |-> history,
   enriched_context |-> None, long_term_memories |-> <<>>, rag_results |-> <<>>,
   masked_message |-> <<>>, masked_context |-> <<>>, pii_mapping |-> <<>>,
   llm_response |-> <<>>, final_response |-> <<>>]

PipeInit ==
  /\ pc = "context_enrichment"
  /\ \E user_id \in UserIds, message \in Messages, loc \in Locations,
        history \in Histories, use_mock_data \in BOOLEAN :
       state = InitialState(user_id, message, loc, history, use_mock_data)
  /\ api_key \in BOOLEAN
  /\ ran = <<>>
  /\ raised_at = "none"
  /\ failed = {}
  /\ prompts = <<>>
  /\ result = None
  /\ profile_collection = SeededProfiles
  /\ memory_collection \in InitialMemories
  /\ now = 3

\* the pipeline before any request: the masking harness runs on its own
PipeIdle ==
  /\ pc = "idle"
  /\ state = None
  /\ api_key = FALSE
  /\ ran = <<>>
  /\ raised_at = "none"
  /\ failed = {}
  /\ prompts = <<>>
  /\ result = None
  /\ profile_collection = SeededProfiles
  /\ memory_collection = <<>>
  /\ now = 3

\* an exception leaves the node and, nothing catching it, process_message
Raise(node, what) ==
  /\ pc' = "raised"
  /\ raised_at' = node
  /\ failed' = failed \cup {what}
  /\ UNCHANGED <<state, api_key, ran, result, profile_collection,
                 memory_collection, now, auxvars>>

\* the node returned: its fields are merged into the state, the next runs
Goto(node, next, st) ==
  /\ pc' = next
  /\ state' = st
  /\ ran' = Append(ran, node)

\* context_enrichment_node: enrich_context, then retrieve_memories.  Only
\* fetch_live_stores catches the failure of its collaborator.
ContextEnrichment ==
  /\ pc = "context_enrichment"
  /\ \E fail \in {"none", "identity", "profile_backend", "mock_location", "memory_backend"},
        live_answer \in LiveAnswers, live_ok \in BOOLEAN :
       /\ state.use_mock_data => (live_ok /\ live_answer = <<>>)
       /\ ~live_ok => live_answer = <<>>
       /\ LET uses_mock == state.use_mock_data
                           \/ fetch_live_stores(live_answer, live_ok) = <<>>
              raises == \/ fail = "identity"
                        \/ fail = "profile_backend" /\ state.user_id \in KnownUsers
                        \/ fail = "mock_location" /\ uses_mock
                        \/ fail = "memory_backend"
          IN IF raises
             THEN Raise("context_enrichment", fail) /\ UNCHANGED prompts
             ELSE /\ fail = "none"
                  /\ \E memories \in retrieve_memories(memory_collection, state.user_id, 3) :
                       Goto("context_enrichment", "rag_retrieval",
                            [state EXCEPT
                               !.enriched_context =
                                  enrich_context(profile_collection, state.user_id, state.loc,
                                                 state.use_mock_data, live_answer, live_ok),
                               !.long_term_memories = memories])
                  /\ failed' = failed \cup (IF live_ok THEN {} ELSE {"live_location"})
                  /\ raised_at' = raised_at
                  /\ UNCHANGED <<api_key, prompts, result, profile_collection,
                                 memory_collection, now, auxvars>>

\* rag_retrieval_node
RagRetrieval ==
  /\ pc = "rag_retrieval"
  /\ \/ Raise("rag_retrieval", "store_backend") /\ UNCHANGED prompts
     \/ /\ \E rag_results \in retrieve_relevant_info(3) :
             Goto("rag_retrieval", "pii_masking",
                  [state EXCEPT !.rag_results = rag_results])
        /\ UNCHANGED <<api_key, raised_at, failed, prompts, result,
                       profile_collection, memory_collection, now, auxvars>>

\* the context string pii_masking_node builds from the state
ContextString(st) ==
  _build_context_string(st.enriched_context, st.rag_results,
                        st.long_term_memories, st.conversation_history)

\* pii_masking_node: the message from no mapping, then the context string
\* with the mapping the first call returned
MaskedFields(st) ==
  LET first == mask_pii(st.user_message, <<>>)
      second == mask_pii(ContextString(st), first.mapping)
  IN [st EXCEPT !.masked_message = first.text,
                !.masked_context = second.text,
                !.pii_mapping = second.mapping]

PiiMasking ==
  /\ pc = "pii_masking"
  /\ Goto("pii_masking", "llm_generation", MaskedFields(state))
  /\ UNCHANGED <<api_key, raised_at, failed, prompts, result,
                 profile_collection, memory_collection, now, auxvars>>

\* llm_generation_node: the sentinel without a key; otherwise the call,
\* whose exception nothing catches
LlmGeneration ==
  /\ pc = "llm_generation"
  /\ IF ~api_key
     THEN /\ Goto("llm_generation", "unmask_response",
                  [state EXCEPT !.llm_response = Sentinel])
          /\ UNCHANGED <<api_key, raised_at, failed, prompts, result,
                         profile_collection, memory_collection, now, auxvars>>
     ELSE /\ prompts' = Append(prompts, GeneratePrompt(state))
          /\ \/ Raise("llm_generation", "generation")
             \/ /\ \E reply \in Replies(state.pii_mapping) :
                     Goto("llm_generation", "unmask_response",
                          [state EXCEPT !.llm_response = reply])
                /\ UNCHANGED <<api_key, raised_at, failed, result,
                               profile_collection, memory_collection, now, auxvars>>

\* a stage that empties the mapping once it has used it
UnmaskedFieldsConsuming(st) ==
  [st EXCEPT !.final_response = unmask_pii(st.llm_response, st.pii_mapping),
             !.pii_mapping = <<>>]

\* unmask_response_node
UnmaskedFields(st) ==
  [st EXCEPT !.final_response = unmask_pii(st.llm_response, st.pii_mapping)]

UnmaskResponse ==
  /\ pc = "unmask_response"
  /\ Goto("unmask_response", "persona_update", UnmaskedFields(state))
  /\ UNCHANGED <<api_key, raised_at, failed, prompts, result,
                 profile_collection, memory_collection, now, auxvars>>

\* the sentinel compared as written, in capitals only
IsFactCaseSensitive(insight) == insight.text # <<>> /\ insight.text # <<Lbl("NONE")>>

\* if insight and insight.upper() != "NONE"
IsFact(insight) == insight.text # <<>> /\ Upper(insight.text) # <<Lbl("NONE")>>

\* persona_update_node.  Without a key it returns at once.  The prompt is
\* built outside the try block and reads .get("preferences") of
\* enriched_context["user"], which is None for an unknown user.  Inside the
\* try block a failure ends the writes and is swallowed.  The graph then
\* ends and process_message returns final_response.
PersonaUpdate ==
  /\ pc = "persona_update"
  /\ IF ~api_key
     THEN /\ Goto("persona_update", "END", state)
          /\ result' = state.final_response
          /\ UNCHANGED <<api_key, raised_at, failed, prompts,
                         profile_collection, memory_collection, now, auxvars>>
     ELSE IF state.enriched_context.user = None
     THEN Raise("persona_update", "prompt") /\ UNCHANGED prompts
     ELSE /\ prompts' = Append(prompts, LearnPrompt(state))
          /\ Goto("persona_update", "END", state)
          /\ result' = state.final_response
          /\ \E insight \in Insights,
                fail \in {"none", "learn_generation", "profile_backend",
                          "memory_backend_fact", "memory_backend_summary"} :
               LET merged == add_learned_preference(profile_collection, state.user_id,
                                                    insight.words, Today)
                   one == save_memory(memory_collection, state.user_id,
                                      "learned_fact", insight.text, now)
                   two == save_memory(one, state.user_id, "conversation_summary",
                                      SummaryOf(state.user_message), now + 1)
               IN /\ fail \notin {"none", "learn_generation"} => IsFact(insight)
                  /\ fail = "profile_backend" => DOMAIN LearnedUpdates(insight.words) # {}
                  /\ fail = "learn_generation" => insight = [text |-> <<>>, words |-> {}]
                  /\ failed' = failed \cup (IF fail = "none" THEN {} ELSE {fail})
                  /\ profile_collection' =
                       IF IsFact(insight) /\ fail \notin {"learn_generation", "profile_backend"}
                       THEN merged ELSE profile_collection
                  /\ memory_collection' =
                       IF ~IsFact(insight) \/ fail \in {"learn_generation", "profile_backend",
                                                       "memory_backend_fact"}
                       THEN memory_collection
                       ELSE IF fail = "memory_backend_summary" THEN one ELSE two
                  /\ now' = now + Len(memory_collection') - Len(memory_collection)
                  /\ learned' = IF fail = "learn_generation" \/ request = None
                               THEN None ELSE insight
          /\ UNCHANGED <<api_key, raised_at, mkvars, storevars, envars, servevars,
                         kbvars>>

Init == PipeInit /\ MkInit /\ AuxInit

Next ==
  \/ ContextEnrichment
  \/ RagRetrieval
  \/ PiiMasking
  \/ LlmGeneration
  \/ UnmaskResponse
  \/ PersonaUpdate

\* one process_message invocation
Spec == Init /\ [][Next]_vars

\* ---------------------------------------------------------- masking harness
\* masked, mapping = mask_pii(text, existing_mapping=mapping): the first
\* call of a chain starts from the empty mapping.
MaskCall ==
  /\ mk_phase = "ready"
  /\ mk_n < MaxCalls
  /\ \E text \in TextsUpTo(MaxLen) :
       LET r == mask_pii(text, mk_map)
       IN /\ mk_in' = text
          /\ mk_prev' = mk_map
          /\ mk_out' = r.text
          /\ mk_map' = r.mapping
          /\ mk_log' = mk_log \o r.log
  /\ mk_n' = mk_n + 1
  /\ mk_phase' = "masked"
  /\ mk_un' = <<>>
  /\ UNCHANGED <<pipevars, storevars, envars, servevars, learnvars, kbvars>>

\* unmask_pii(masked, mapping) on what the last call returned.
UnmaskCall ==
  /\ mk_phase = "masked"
  /\ mk_un' = unmask_pii(mk_out, mk_map)
  /\ mk_phase' = "unmasked"
  /\ UNCHANGED <<mk_n, mk_in, mk_prev, mk_out, mk_map, mk_log, pipevars,
                 storevars, envars, servevars, learnvars, kbvars>>

\* the caller keeps the mapping for its next call, as pii_masking_node does
\* between the message and the context string, and drops the texts.
KeepMapping ==
  /\ mk_phase \in {"masked", "unmasked"}
  /\ mk_phase' = "ready"
  /\ mk_in' = <<>>
  /\ mk_prev' = <<>>
  /\ mk_out' = <<>>
  /\ mk_un' = <<>>
  /\ UNCHANGED <<mk_n, mk_map, mk_log, pipevars, storevars, envars, servevars,
                 learnvars, kbvars>>

\* chains of mask_pii calls and their unmasking, on their own
MaskInit == MkInit /\ PipeIdle /\ AuxInit

MaskNext == MaskCall \/ UnmaskCall \/ KeepMapping

MaskSpec == MaskInit /\ [][MaskNext]_vars

\* ------------------------------------------------------------ memory calls
\* most save_memory calls before the memory harness stops
MaxSaves == 3

\* what callers store: two texts, either of which any user may save
MemoryContents == {<<Txt("Customer prefers iced latte")>>, <<Txt("Customer is in a hurry")>>}

\* save_memory(user_id, "learned_fact", content) by any user, at the next
\* reading of the clock
SaveMemory ==
  /\ Len(memory_collection) < MaxSaves
  /\ \E user_id \in KnownUsers, content \in MemoryContents :
       memory_collection' =
         save_memory(memory_collection, user_id, "learned_fact", content, now)
  /\ now' = now + 1
  /\ UNCHANGED <<pc, state, api_key, ran, raised_at, failed, prompts, result,
                 profile_collection, mkvars, storevars, envars, servevars, learnvars, kbvars>>

\* retrieve_memories(user_id, query, n_results) by any user, known or not
RetrieveMemories ==
  /\ \E user_id \in ProfileIds, n_results \in {1, 3} :
       \E documents \in retrieve_memories(memory_collection, user_id, n_results) :
         retrieved' = [user_id |-> user_id, n_results |-> n_results,
                       documents |-> documents]
  /\ UNCHANGED <<pipevars, mkvars, purchased, merges, snaps, procs, envars, servevars,
                 learnvars, kbvars>>

MemoryInit == MkInit /\ PipeIdle /\ AuxInit

MemoryNext == SaveMemory \/ RetrieveMemories

\* interleaved save_memory and retrieve_memories calls of several users
MemorySpec == MemoryInit /\ [][MemoryNext]_vars

\* ---------------------------------------------------------- purchase calls
\* most add_purchase merges before the purchase harness stops
MaxPurchases == 11

PurchaseItems == {"muffin", "mocha"}

\* update_user_profile(user_id, {"add_purchase": item}) for a user with a
\* profile entry
AddPurchase ==
  /\ \E user_id \in KnownUsers, item \in PurchaseItems :
       /\ Len(purchased["u1"]) + Len(purchased["u2"]) < MaxPurchases
       /\ profile_collection' =
            update_user_profile(profile_collection, user_id,
                                [add_purchase |-> item], Today)
       /\ purchased' = [purchased EXCEPT
                          ![user_id] = Append(@, [item |-> item, date |-> Today])]
  /\ UNCHANGED <<pc, state, api_key, ran, raised_at, failed, prompts, result,
                 memory_collection, now, mkvars, retrieved, merges, snaps, procs,
                 envars, servevars, learnvars, kbvars>>

PurchaseInit == MkInit /\ PipeIdle /\ AuxInit

PurchaseNext == AddPurchase

\* add_purchase merges of two users, one after another
PurchaseSpec == PurchaseInit /\ [][PurchaseNext]_vars

\* ------------------------------------------------------------- merge calls
\* most update_user_profile calls before the merge harness stops
MaxMerges == 2

\* the updates callers pass: each recognised key alone, a value the seeded
\* profile already holds and one it does not, and two keys in one call
UpdateSets ==
  {[add_favorite_drink |-> "latte"], [add_favorite_drink |-> "mocha"],
   [add_dietary |-> "vegan"], [set_temperature |-> "cold"],
   [add_purchase |-> "muffin"], [add_loyalty_points |-> 10],
   [add_dietary |-> "keto", set_temperature |-> "hot"]}

\* update_user_profile(user_id, updates), on the day of the previous call
\* or a later one, for a user with or without a profile entry
Merge ==
  /\ Len(merges) < MaxMerges
  /\ \E user_id \in ProfileIds, updates \in UpdateSets, today \in Days :
       /\ merges # <<>> => merges[Len(merges)].today <= today
       /\ profile_collection' =
            update_user_profile(profile_collection, user_id, updates, today)
       /\ merges' = Append(merges, [user_id |-> user_id, updates |-> updates,
                                     today |-> today])
       /\ snaps' = Append(snaps, profile_collection')
  /\ UNCHANGED <<pc, state, api_key, ran, raised_at, failed, prompts, result,
                 memory_collection, now, mkvars, retrieved, purchased, procs,
                 envars, servevars, learnvars, kbvars>>

MergeInit == MkInit /\ PipeIdle /\ AuxInit

MergeNext == Merge

\* update_user_profile calls one after another
MergeSpec == MergeInit /\ [][MergeNext]_vars

\* -------------------------------------------------------- concurrent calls
\* most update_user_profile calls of one thread
MaxRounds == 2

ConcurrentUpdates ==
  {[add_favorite_drink |-> "mocha"], [add_purchase |-> "muffin"],
   [add_loyalty_points |-> 10]}

\* thread p enters update_user_profile for its user and reads:
\* current = get_user_profile_data(user_id)
ReadCurrent(p) ==
  /\ procs[p].pc = "idle"
  /\ Len(procs[p].done) < MaxRounds
  /\ \E updates \in ConcurrentUpdates :
       procs' = [procs EXCEPT ![p] =
                   [pc |-> "read", updates |-> updates, today |-> Today,
                    current |-> get_user_profile_data(profile_collection, TargetOf[p]),
                    done |-> procs[p].done]]
  /\ UNCHANGED <<pipevars, mkvars, retrieved, purchased, merges, snaps,
                 envars, servevars, learnvars, kbvars>>

\* thread p applies the keys to what it read and writes once:
\* profile_collection.update(...), then returns
WriteBack(p) ==
  /\ procs[p].pc = "read"
  /\ profile_collection' =
       CollectionUpdate(profile_collection, TargetOf[p],
                        MergeInto(procs[p].current, procs[p].updates, procs[p].today))
  /\ procs' = [procs EXCEPT ![p] =
                 IdleProc(Append(procs[p].done,
                                 [user_id |-> TargetOf[p], updates |-> procs[p].updates,
                                  today |-> procs[p].today]))]
  /\ UNCHANGED <<pc, state, api_key, ran, raised_at, failed, prompts, result,
                 memory_collection, now, mkvars, retrieved, purchased, merges, snaps,
                 envars, servevars, learnvars, kbvars>>

ConcurrentInit == MkInit /\ PipeIdle /\ AuxInit

ConcurrentNext ==
  \/ \E p \in Procs : ReadCurrent(p)
  \/ \E p \in Procs : WriteBack(p)

\* two threads, each merging into the profile of its own user
ConcurrentSpec == ConcurrentInit /\ [][ConcurrentNext]_vars

\* -------------------------------------------------------- enrichment calls
\* most elements in one answer of the live lookup
LiveLen == 2

\* fetch_live_stores(lat, lng, radius_m=800): the radius of the query
LiveRadius == 800

\* the coordinates enrich_context is called with: near the stores, away
\* from them, at the same distance from two of them and exactly on the
\* radius of the third, within the radius of all four, and far from all
EnrichLocations == {"loc_a", "loc_b", "loc_c", "loc_d", "loc_out"}

\* the venues OpenStreetMap holds around the coordinates, with the distance
\* haversine_distance gives for each: two of them equally far, one exactly
\* on the radius of the query, one beyond it
LiveVenues ==
  {[store_id |-> "live_1", distance_m |-> 60, source |-> "live"],
   [store_id |-> "live_2", distance_m |-> 410, source |-> "live"],
   [store_id |-> "live_3", distance_m |-> 410, source |-> "live"],
   [store_id |-> "live_4", distance_m |-> 800, source |-> "live"],
   [store_id |-> "live_5", distance_m |-> 950, source |-> "live"]}

\* node[...](around:{radius_m},{lat},{lng}): what the lookup answers, up to
\* n elements within the radius of the query, each once, in any order
AroundQuery(radius_m, n) ==
  LET within == {v \in LiveVenues : v.distance_m <= radius_m}
  IN {q \in UNION {[1..m -> within] : m \in 0..n} :
        \A i, j \in 1..Len(q) : i # j => q[i] # q[j]}

\* enrich_context(user_id, lat, lng, use_mock_data); the live lookup, asked
\* only in live mode, answers or fails
Enrich ==
  /\ \E user_id \in UserIds, loc \in EnrichLocations, use_mock_data \in BOOLEAN,
        live_answer \in AroundQuery(LiveRadius, LiveLen), live_ok \in BOOLEAN :
       /\ use_mock_data => (live_ok /\ live_answer = <<>>)
       /\ ~live_ok => live_answer = <<>>
       /\ en_in' = [user_id |-> user_id, loc |-> loc, use_mock_data |-> use_mock_data,
                     live_answer |-> live_answer, live_ok |-> live_ok]
       /\ en_out' = enrich_context(profile_collection, user_id, loc, use_mock_data,
                                    live_answer, live_ok)
  /\ UNCHANGED <<pipevars, mkvars, storevars, servevars, learnvars, kbvars>>

EnrichInit == MkInit /\ PipeIdle /\ AuxInit

EnrichNext == Enrich

\* enrich_context calls, one after another
EnrichSpec == EnrichInit /\ [][EnrichNext]_vars

\* ------------------------------------------------------------ /chat requests
\* most /chat requests before the request harness stops
MaxTurns == 2

\* class ChatRequest: the fields without a default
RequiredFields == {"user_id", "message", "lat", "lng"}

\* the JSON bodies posted to /chat: with or without a user_id; with
\* coordinates near the stores or with a latitude and longitude outside
\* [-90, 90] and [-180, 180] (loc_out), for which haversine_distance still
\* returns a number
Bodies ==
  {[fields |-> fields, user_id |-> "u1", message |-> <<W>>, loc |-> loc,
    use_mock_data |-> TRUE, conversation_history |-> <<>>] :
     fields \in {RequiredFields, RequiredFields \ {"user_id"}},
     loc \in {"loc_a", "loc_out"}}

\* POST /chat.  The body is parsed into a ChatRequest, which fails when a
\* required field is absent: the handler is not entered and the client gets
\* a 422.  Otherwise chat() calls process_message with the fields as they
\* came, which builds the initial state and invokes the graph.  The server
\* takes the next request when this one has returned or raised.
Chat ==
  /\ pc \in {"idle", "END", "raised", "rejected"}
  /\ turn < MaxTurns
  /\ turn' = turn + 1
  /\ \E body \in Bodies :
       /\ request' = body
       /\ IF RequiredFields \subseteq body.fields
          THEN /\ pc' = "context_enrichment"
               /\ state' = InitialState(body.user_id, body.message, body.loc,
                                         body.conversation_history, body.use_mock_data)
          ELSE /\ pc' = "rejected"
               /\ state' = state
  /\ before' = [profiles |-> profile_collection, memories |-> memory_collection]
  /\ ran' = <<>>
  /\ raised_at' = "none"
  /\ failed' = {}
  /\ prompts' = <<>>
  /\ result' = None
  /\ learned' = None
  /\ UNCHANGED <<api_key, profile_collection, memory_collection, now,
                 mkvars, storevars, envars, kbvars>>

\* the server after start-up: collections seeded, no request yet
ServeInit ==
  /\ pc = "idle"
  /\ state = None
  /\ api_key \in BOOLEAN
  /\ ran = <<>>
  /\ raised_at = "none"
  /\ failed = {}
  /\ prompts = <<>>
  /\ result = None
  /\ profile_collection = SeededProfiles
  /\ memory_collection = <<>>
  /\ now = 3
  /\ MkInit
  /\ AuxInit

ServeNext ==
  \/ Chat
  \/ ContextEnrichment
  \/ RagRetrieval
  \/ PiiMasking
  \/ LlmGeneration
  \/ UnmaskResponse
  \/ PersonaUpdate

\* /chat requests served one after another by one process
ServeSpec == ServeInit /\ [][ServeNext]_vars

\* -------------------------------------------------------------- fact calls
MaxFacts == 1

\* the keywords a fact may hold: the temperature cues, a verb, and two
\* keywords of each list, the later of the list first in the alphabet
FactKeywords == {"hot", "cold", "iced", "prefer", "vegan", "keto", "latte", "chai"}

\* add_learned_preference(user_id, preference_text) for a fact holding any
\* of the keywords; merges takes the update_user_profile call it makes
LearnFact ==
  /\ Len(snaps) <= MaxFacts
  /\ \E words \in SUBSET FactKeywords :
       /\ learned' = [text |-> <<Txt("fact")>>, words |-> words]
       /\ profile_collection' = add_learned_preference(profile_collection, "u1", words, Today)
       /\ merges' = IF DOMAIN LearnedUpdates(words) # {}
                    THEN Append(merges, [user_id |-> "u1", updates |-> LearnedUpdates(words),
                                         today |-> Today])
                    ELSE merges
       /\ snaps' = Append(snaps, profile_collection')
  /\ UNCHANGED <<pc, state, api_key, ran, raised_at, failed, prompts, result,
                 memory_collection, now, mkvars, retrieved, purchased, procs,
                 envars, servevars, kbvars>>

FactInit == MkInit /\ PipeIdle /\ AuxInit

FactNext == LearnFact

\* add_learned_preference calls, one after another
FactSpec == FactInit /\ [][FactNext]_vars

\* ------------------------------------------------------------- store calls
MaxInits == 2

\* the updates the store operations merge: each of them settles
StoreUpdates == {[set_temperature |-> "cold"], [add_favorite_drink |-> "mocha"]}

\* the users whose profiles are merged into, and those who save memories
MergedUsers == {"u1", "u3"}
SavingUsers == {"u1", "u2"}

\* the client as the three module-level collections show it
Collections ==
  [store |-> store_collection, profiles |-> profile_collection,
   memories |-> memory_collection]

\* initialize_vectorstore(), at any point
InitializeVectorstore ==
  /\ inits < MaxInits
  /\ inits' = inits + 1
  /\ LET db == initialize_vectorstore(Collections, StoreUsers)
     IN /\ store_collection' = db.store
        /\ profile_collection' = db.profiles
        /\ memory_collection' = db.memories
  /\ UNCHANGED <<pc, state, api_key, ran, raised_at, failed, prompts, result, now,
                 mkvars, storevars, envars, servevars, learnvars, saves>>

\* update_user_profile(user_id, updates)
StoreMerge ==
  /\ \E user_id \in MergedUsers, updates \in StoreUpdates :
       LET db == Opened(Collections, StoreUsers)
       IN /\ store_collection' = db.store
          /\ profile_collection' = update_user_profile(db.profiles, user_id, updates, Today)
          /\ memory_collection' = db.memories
  /\ UNCHANGED <<pc, state, api_key, ran, raised_at, failed, prompts, result, now,
                 mkvars, storevars, envars, servevars, learnvars, inits, saves>>

\* save_memory(user_id, "learned_fact", content) at a reading of the clock:
\* the reading of the call before, or a later one
StoreSave ==
  /\ saves < MaxSaves
  /\ saves' = saves + 1
  /\ \E user_id \in SavingUsers, content \in MemoryContents, timestamp \in {now, now + 1} :
       LET db == Opened(Collections, StoreUsers)
       IN /\ store_collection' = db.store
          /\ profile_collection' = db.profiles
          /\ memory_collection' =
               save_memory(db.memories, user_id, "learned_fact", content, timestamp)
          /\ now' = timestamp
  /\ UNCHANGED <<pc, state, api_key, ran, raised_at, failed, prompts, result,
                 mkvars, storevars, envars, servevars, learnvars, inits>>

\* the module before initialize_vectorstore() ran
StoreInit ==
  /\ MkInit
  /\ AuxIdle
  /\ pc = "idle"
  /\ state = None
  /\ api_key = FALSE
  /\ ran = <<>>
  /\ raised_at = "none"
  /\ failed = {}
  /\ prompts = <<>>
  /\ result = None
  /\ now = 3
  /\ store_collection = NoCollections.store
  /\ profile_collection = NoCollections.profiles
  /\ memory_collection = NoCollections.memories

StoreNext == InitializeVectorstore \/ StoreMerge \/ StoreSave

\* initialisations, merges and saves in any order
StoreSpec == StoreInit /\ [][StoreNext]_vars

\* ================================================================ properties
\* position i of text holds a value that its category's pattern matches
MatchAt(text, i) ==
  text[i].k = "val" /\ BoundaryBefore(text, i) /\ BoundaryAfter(text, i)

\* the sensitive values the category patterns detect in text
Detected(text) == {text[i] : i \in {j \in 1..Len(text) : MatchAt(text, j)}}

\* the tokens (keys) of a mapping, and those that stand for value v
Keys(mapping) == {mapping[i].token : i \in 1..Len(mapping)}
TokensOf(mapping, v) ==
  {mapping[i].token : i \in {j \in 1..Len(mapping) : mapping[j].value = v}}

Atoms(text) == {text[i] : i \in 1..Len(text)}

Ended == pc \in {"END", "raised"}

\* C1: for every text, unmasking what mask_pii returned from an empty
\* mapping gives the text back (no pattern of the model matches token
\* syntax, so the claim's precondition holds of every text).
C1_RoundTrip ==
  (mk_phase = "unmasked" /\ mk_n = 1) => mk_un = mk_in

\* C2: no prompt handed to the generation service, by the Generate node or
\* by the Learn node, holds in raw form a value that the patterns detect in
\* the user message or in the context string.
C2_NoRawValueInPrompts ==
  \A i \in 1..Len(prompts) :
    Atoms(prompts[i])
      \cap (Detected(state.user_message) \cup Detected(ContextString(state))) = {}

\* C3: when the patterns detect the same value at two positions of a text,
\* one mask_pii call from an empty mapping leaves exactly one token for that
\* value in the mapping, and that token stands at both positions.
C3_OneTokenPerValue ==
  (mk_phase = "masked" /\ mk_n = 1) =>
    \A i, j \in 1..Len(mk_in) :
      (i < j /\ MatchAt(mk_in, i) /\ MatchAt(mk_in, j) /\ mk_in[i] = mk_in[j]) =>
        /\ Cardinality(TokensOf(mk_map, mk_in[i])) = 1
        /\ mk_out[i] \in TokensOf(mk_map, mk_in[i])
        /\ mk_out[j] = mk_out[i]

\* C4: after the Mask node, a value detected both in the user message and
\* in the context string has exactly one token in pii_mapping.
C4_SharedValueOneToken ==
  "pii_masking" \in Atoms(ran) =>
    \A v \in Detected(state.user_message) \cap Detected(ContextString(state)) :
      Cardinality(TokensOf(state.pii_mapping, v)) = 1

\* C5: over a chain of mask_pii calls, each fed the mapping the previous one
\* returned, the tokens of one category are assigned with strictly
\* increasing numbers, the first of them 1, hence none twice; and every
\* entry of the mapping a call was given is in the mapping it returns, at
\* the same place and with the same value.
C5_TokenCounters ==
  /\ \A i, j \in 1..Len(mk_log) :
       (i < j /\ mk_log[i].c = mk_log[j].c) => mk_log[i].n < mk_log[j].n
  /\ \A i \in 1..Len(mk_log) :
       (\A j \in 1..(i - 1) : mk_log[j].c # mk_log[i].c) => mk_log[i].n = 1
  /\ Len(mk_prev) <= Len(mk_map)
  /\ \A i \in 1..Len(mk_prev) : mk_map[i] = mk_prev[i]

\* a second call was given a mapping that already numbers a category and
\* assigned a further token of that category
C5_Witness ==
  /\ mk_phase = "masked"
  /\ mk_n = 2
  /\ mk_prev # <<>>
  /\ \E i \in 1..Len(mk_map) :
       i > Len(mk_prev) /\ mk_map[i].token.c = mk_prev[1].token.c

\* C6: the six nodes run once each, in order, none skipped or retried, and
\* the invocation ends in the terminal state that returns the final reply.
C6_SixStagesOnce ==
  /\ Len(ran) <= Len(Nodes)
  /\ \A i \in 1..Len(ran) : ran[i] = Nodes[i]
  /\ Ended => (pc = "END" /\ ran = Nodes /\ result = state.final_response)

\* C7: when the call of the generation service fails in the Generate node,
\* no exception escapes and process_message returns the sentinel text.
C7_SentinelOnUnreachable ==
  "generation" \in failed => (pc # "raised" /\ (pc = "END" => result = Sentinel))

\* C8: once the Unmask node has produced the final reply, nothing that goes
\* wrong in the Learn node makes process_message raise; it returns the reply.
C8_LearnNeverRaises ==
  "unmask_response" \in Atoms(ran) =>
    (pc # "raised" /\ (pc = "END" => result = state.final_response))

\* C9: no failure of a collaborator of the Enrich or Retrieve node aborts
\* process_message.
C9_EnrichRetrieveDegrade ==
  raised_at \notin {"context_enrichment", "rag_retrieval"}

\* C10 as stated: after the Unmask node the final reply holds no token of
\* the mapping and no token-shaped marker at all.
C10_NoTokenShaped ==
  "unmask_response" \in Atoms(ran) =>
    \A a \in Atoms(state.final_response) : a.k # "tok"

\* C10 as amended: after the Unmask node no token of the invocation's
\* mapping is left in the final reply, and that reply is what an ended
\* invocation returns, whichever tokens the service echoed, in whatever
\* order and however often.
C10_NoMappingToken ==
  "unmask_response" \in Atoms(ran) =>
    /\ Atoms(state.final_response) \cap Keys(state.pii_mapping) = {}
    /\ pc = "END" => Atoms(result) \cap Keys(state.pii_mapping) = {}

\* the service echoed two tokens of the mapping in reverse order, and the
\* invocation returned
C10_Witness ==
  /\ pc = "END"
  /\ Len(state.pii_mapping) >= 2
  /\ state.llm_response = <<state.pii_mapping[2].token, state.pii_mapping[1].token>>

\* the contents of the entries that were saved with user identifier u
ContentsOf(memories, u) ==
  {memories[i].content : i \in {j \in 1..Len(memories) : memories[j].user_id = u}}

\* C11: whatever calls came before, every document retrieve_memories
\* returned for user A is the content of an entry saved with user
\* identifier A, and it returns as many as asked for or all A has.
C11_OwnEntriesOnly ==
  retrieved # None =>
    /\ \A j \in 1..Len(retrieved.documents) :
         retrieved.documents[j] \in ContentsOf(memory_collection, retrieved.user_id)
    /\ Len(retrieved.documents) <= retrieved.n_results

\* a query answered with a document while the collection holds entries of
\* the asking user and an entry of another user with a content of its own
C11_Witness ==
  /\ retrieved # None
  /\ retrieved.documents # <<>>
  /\ \E i, j \in 1..Len(memory_collection) :
       /\ memory_collection[i].user_id = retrieved.user_id
       /\ memory_collection[j].user_id # retrieved.user_id
       /\ memory_collection[j].content \notin
            ContentsOf(memory_collection, retrieved.user_id)

\* the tail of a list, written without the slice of the model
Newest(q, n) ==
  [i \in 1..(IF Len(q) < n THEN Len(q) ELSE n) |->
     q[i + (IF Len(q) < n THEN 0 ELSE Len(q) - n)]]

\* C12: once a user's profile has taken add_purchase merges, however many,
\* the stored purchase history has at most 10 entries, and they are the
\* newest of the seeded entries followed by the added ones, oldest first.
C12_PurchaseHistoryCapped ==
  \A u \in KnownUsers :
    purchased[u] # <<>> =>
      LET stored == profile_collection[u].profile_json.purchase_history
      IN /\ Len(stored) <= 10
         /\ stored = Newest(StaticUsers[u].purchase_history \o purchased[u], 10)

\* a user who started without purchases has made more than ten, and the
\* oldest of them is gone from the stored history
C12_Witness ==
  /\ Len(purchased["u1"]) > 10
  /\ Len(profile_collection["u1"].profile_json.purchase_history) = 10
  /\ purchased["u1"][1] # purchased["u1"][2]

\* how often x stands in list
Occurrences(list, x) == Cardinality({i \in 1..Len(list) : list[i] = x})

\* merge call i and the next one are the same add_favorite_drink or
\* add_dietary merge for the same user
SameSetMerge(i) ==
  /\ merges[i].user_id = merges[i + 1].user_id
  /\ merges[i].updates = merges[i + 1].updates
  /\ DOMAIN merges[i].updates \in {{"add_favorite_drink"}, {"add_dietary"}}

\* C13: when the same add_favorite_drink or add_dietary merge is applied
\* twice in a row to a user, the collection after the second call equals
\* the collection after the first, and a stored profile holds the value
\* exactly once.
C13_SetMergeIdempotent ==
  \A i \in 1..(Len(merges) - 1) :
    SameSetMerge(i) =>
      LET u == merges[i].user_id
          stored == get_user_profile_data(snaps[i + 2], u)
      IN /\ snaps[i + 2] = snaps[i + 1]
         /\ stored # None =>
              /\ "add_favorite_drink" \in DOMAIN merges[i].updates =>
                   Occurrences(stored.preferences.favorite_drinks,
                               merges[i].updates["add_favorite_drink"]) = 1
              /\ "add_dietary" \in DOMAIN merges[i].updates =>
                   Occurrences(stored.preferences.dietary,
                               merges[i].updates["add_dietary"]) = 1

\* a drink the seeded profile did not hold was added twice in a row
C13_Witness ==
  /\ Len(merges) = 2
  /\ SameSetMerge(1)
  /\ merges[1].user_id = "u1"
  /\ merges[1].updates = [add_favorite_drink |-> "mocha"]
  /\ snaps[2] # snaps[1]

\* merge call i and the next one are for the same user and share no key
IndependentMerges(i) ==
  /\ merges[i].user_id = merges[i + 1].user_id
  /\ DOMAIN merges[i].updates \cap DOMAIN merges[i + 1].updates = {}

\* the collection after merge call m was applied to profiles
After(profiles, m) == update_user_profile(profiles, m.user_id, m.updates, m.today)

\* C14: two merges for the same user that share no update key give the same
\* collection, profile data and search document alike, in either order;
\* each merge is taken with the date it carries.
C14_IndependentKeysCommute ==
  \A i \in 1..(Len(merges) - 1) :
    IndependentMerges(i) =>
      snaps[i + 2] = After(After(snaps[i], merges[i + 1]), merges[i])

\* a purchase merge and a preference merge, on different days, both of
\* which changed the stored profile of a user
C14_Witness ==
  /\ Len(merges) = 2
  /\ IndependentMerges(1)
  /\ merges[1].user_id = "u2"
  /\ merges[1].updates = [add_purchase |-> "muffin"]
  /\ DOMAIN merges[2].updates = {"add_dietary", "set_temperature"}
  /\ merges[1].today < merges[2].today
  /\ snaps[1] # snaps[2]
  /\ snaps[2] # snaps[3]
  /\ snaps[2]["u2"].doc # snaps[3]["u2"].doc

\* every recognised key of updates shows in the stored record
Reflects(stored, updates) ==
  /\ "add_favorite_drink" \in DOMAIN updates =>
       Occurrences(stored.preferences.favorite_drinks, updates["add_favorite_drink"]) = 1
  /\ "add_dietary" \in DOMAIN updates =>
       Occurrences(stored.preferences.dietary, updates["add_dietary"]) = 1
  /\ "set_temperature" \in DOMAIN updates =>
       stored.preferences.preferred_temperature = updates["set_temperature"]
  /\ "add_purchase" \in DOMAIN updates =>
       /\ stored.purchase_history # <<>>
       /\ stored.purchase_history[Len(stored.purchase_history)].item
            = updates["add_purchase"]
  /\ "add_loyalty_points" \in DOMAIN updates =>
       stored.loyalty_points >= updates["add_loyalty_points"]

\* C18: after update_user_profile for a user that had no stored record,
\* get_user_profile_data returns a record, and it reflects the updates.
C18_CreatedOnFirstWrite ==
  \A i \in 1..Len(merges) :
    get_user_profile_data(snaps[i], merges[i].user_id) = None =>
      LET stored == get_user_profile_data(snaps[i + 1], merges[i].user_id)
      IN stored # None /\ Reflects(stored, merges[i].updates)

\* the collection after the merge calls ms, applied one after another
RECURSIVE AfterAll(_, _)
AfterAll(profiles, ms) ==
  IF ms = <<>> THEN profiles
  ELSE AfterAll(After(profiles, Head(ms)), Tail(ms))

\* C20: under every interleaving of the read and write steps of two threads
\* that merge into different users, the stored profile of each user is at
\* all times, hence at the end, what that user's own completed merges give
\* when applied alone to the seeded collection.
C20_DifferentUsersIsolated ==
  \A p \in Procs :
    profile_collection[TargetOf[p]]
      = AfterAll(SeededProfiles, procs[p].done)[TargetOf[p]]

\* both threads stand between their read and their write, each having
\* completed a merge before
C20_Witness ==
  /\ \A p \in Procs : procs[p].pc = "read" /\ procs[p].done # <<>>
  /\ \A p \in Procs : profile_collection[TargetOf[p]] # SeededProfiles[TargetOf[p]]

\* the live lookup of the last enrich_context call gave no venue
LiveGaveNothing ==
  /\ en_in # None
  /\ ~en_in.use_mock_data
  /\ fetch_live_stores(en_in.live_answer, en_in.live_ok) = <<>>

\* C16: in live mode, when the live lookup yields no venue, because it
\* answered with none or because it failed, nearby_stores is the list that
\* enrich_context returns in simulated mode for the same coordinates.
C16_LiveEmptyFallsBack ==
  LiveGaveNothing =>
    en_out.nearby_stores
      = enrich_context(profile_collection, en_in.user_id, en_in.loc, TRUE,
                       <<>>, TRUE).nearby_stores

\* the lookup failed, and the simulated source has stores near the
\* coordinates
C16_Witness ==
  /\ LiveGaveNothing
  /\ ~en_in.live_ok
  /\ Len(en_out.nearby_stores) >= 2
  /\ en_out.nearby_stores[1].source = "mock"

\* the radius of the source that produced the list of the last call
RadiusOfSource ==
  IF en_in.use_mock_data \/ LiveGaveNothing THEN 500 ELSE LiveRadius

Malformed(body) == "user_id" \notin body.fields \/ body.loc = "loc_out"

\* C15: a request with malformed input is rejected before the Enrich
\* stage: while it is the request at hand no stage runs or has run.
C15_MalformedRejected ==
  (request # None /\ Malformed(request)) => (pc = "rejected" /\ ran = <<>>)

\* the Enrich stage of the request at hand has run for a known user
EnrichedKnownUser ==
  /\ request # None
  /\ "user_id" \in request.fields
  /\ request.user_id \in KnownUsers
  /\ "context_enrichment" \in Atoms(ran)

\* C19: what the Learn stages of the invocations that returned or raised
\* before this request left in the two collections is what this request,
\* for the same user, works with: the preferences of its enrichment bundle
\* are the stored, merged ones, and its memories are an answer of the
\* memory query over the user's entries, those earlier appends among them
\* (all of them, when the user has no more than the three asked for).
C19_WriteThenRead ==
  EnrichedKnownUser =>
    LET u == request.user_id
        stored == get_user_profile_data(before.profiles, u)
        own == {i \in 1..Len(before.memories) : before.memories[i].user_id = u}
    IN /\ state.enriched_context.user.preferences = stored.preferences
       /\ state.enriched_context.user.purchase_history = stored.purchase_history
       /\ state.enriched_context.user.loyalty_points = stored.loyalty_points
       /\ Len(state.long_term_memories) = Min(3, Cardinality(own))
       /\ Atoms(state.long_term_memories)
            \subseteq {before.memories[i].content : i \in own}
       /\ Cardinality(own) <= 3 =>
            Atoms(state.long_term_memories) = {before.memories[i].content : i \in own}

\* the first invocation learned that the customer prefers iced latte,
\* merged the temperature and appended its two entries; the second
\* request of the user has been enriched
C19_Witness ==
  /\ turn = 2
  /\ EnrichedKnownUser
  /\ get_user_profile_data(before.profiles, "u1").preferences.preferred_temperature = "cold"
  /\ SeededProfiles["u1"].profile_json.preferences.preferred_temperature = ""
  /\ Len(before.memories) = 2
  /\ state.enriched_context.user.preferences.preferred_temperature = "cold"
  /\ Len(state.long_term_memories) = 2

\* the invocation at hand has returned and its Learn stage got a fact
LearnGotFact ==
  /\ pc = "END"
  /\ request # None
  /\ learned # None
  /\ learned.text # <<>>
  /\ learned.text \notin {<<Lbl("NONE")>>, <<Lbl("none")>>}

\* the entries the invocation at hand added to the memory collection
AddedMemories ==
  SubSeq(memory_collection, Len(before.memories) + 1, Len(memory_collection))

\* C21: when the Learn stage gets a fact it merges the profile (only when
\* a keyword family matched), then appends the fact as "learned_fact",
\* then the templated summary as "conversation_summary": without a failure
\* exactly these two entries are added for the user, in this order; a write
\* that fails leaves the earlier writes in place and the later ones undone;
\* the entries that were there before are untouched.
C21_LearnWriteOrder ==
  LearnGotFact =>
    LET u == request.user_id
        merged == IF DOMAIN LearnedUpdates(learned.words) # {}
                  THEN After(before.profiles,
                             [user_id |-> u, updates |-> LearnedUpdates(learned.words),
                              today |-> Today])
                  ELSE before.profiles
        added == AddedMemories
    IN /\ Len(memory_collection) >= Len(before.memories)
       /\ SubSeq(memory_collection, 1, Len(before.memories)) = before.memories
       /\ \A i \in 1..Len(added) : added[i].user_id = u
       /\ failed \cap {"profile_backend", "memory_backend_fact",
                        "memory_backend_summary"} = {} =>
            /\ profile_collection = merged
            /\ Len(added) = 2
            /\ added[1].memory_type = "learned_fact"
            /\ added[1].content = learned.text
            /\ added[2].memory_type = "conversation_summary"
            /\ added[2].content = SummaryOf(request.message)
       /\ "profile_backend" \in failed =>
            profile_collection = before.profiles /\ added = <<>>
       /\ "memory_backend_fact" \in failed =>
            profile_collection = merged /\ added = <<>>
       /\ "memory_backend_summary" \in failed =>
            /\ profile_collection = merged
            /\ Len(added) = 1
            /\ added[1].memory_type = "learned_fact"
            /\ added[1].content = learned.text

\* in a second invocation the append of the summary failed: the merge of
\* the temperature and the fact entry stay, after the two entries and the
\* merge of the first invocation
C21_Witness ==
  /\ LearnGotFact
  /\ turn = 2
  /\ Len(before.memories) = 2
  /\ "memory_backend_summary" \in failed
  /\ Len(memory_collection) = 3
  /\ DOMAIN LearnedUpdates(learned.words) # {}
  /\ profile_collection # SeededProfiles

\* the invocation at hand has returned and its Learn stage got the
\* sentinel, in capitals or not, or an empty text
LearnGotNothing ==
  /\ pc = "END"
  /\ request # None
  /\ learned # None
  /\ learned.text \in {<<>>, <<Lbl("NONE")>>, <<Lbl("none")>>}

\* C22: when the generation service answers the Learn stage with "NONE"
\* in any letter case or with an empty text, the profile collection and
\* the memory collection are what they were when the request arrived.
C22_NoFactNoWrite ==
  LearnGotNothing =>
    /\ profile_collection = before.profiles
    /\ memory_collection = before.memories

\* a second invocation got "none" in small letters and left the merge and
\* the two entries of the first as they were
C22_Witness ==
  /\ LearnGotNothing
  /\ learned.text = <<Lbl("none")>>
  /\ turn = 2
  /\ Len(memory_collection) = 2
  /\ profile_collection # SeededProfiles

\* the entry of every user the collection holds has the document that
\* _profile_to_doc gives for the profile stored with it
DocOfStoredProfile(profiles) ==
  \A u \in DOMAIN profiles :
    profiles[u] # None =>
      LET data == profiles[u].profile_json
          history == data.purchase_history
          from == IF Len(history) > 5 THEN Len(history) - 4 ELSE 1
          doc == profiles[u].doc
          nothing == /\ data.preferences.favorite_drinks = <<>>
                     /\ data.preferences.dietary = <<>>
                     /\ data.preferences.preferred_temperature = ""
                     /\ history = <<>>
                     /\ data.loyalty_points = 0
      IN /\ doc.parts.favorite_drinks = data.preferences.favorite_drinks
         /\ doc.parts.dietary = data.preferences.dietary
         /\ doc.parts.temperature = data.preferences.preferred_temperature
         /\ doc.parts.recent_purchases =
              [i \in 1..(Len(history) - from + 1) |-> history[from + i - 1].item]
         /\ doc.parts.loyalty_points = data.loyalty_points
         /\ doc.placeholder = nothing

\* C23: after seeding and after any merges, the search document stored for
\* each user is _profile_to_doc of the profile data stored for that user,
\* and it is the placeholder "No preferences set" exactly when the profile
\* has no favorite drinks, dietary tags, temperature, purchases or points.
C23_DocMatchesProfile == DocOfStoredProfile(profile_collection)

\* the seeded user with nothing set still has the placeholder, while the
\* document of u1 has taken the merged temperature and drink
C23_Witness ==
  /\ profile_collection["u3"] # None
  /\ profile_collection["u3"].doc.placeholder
  /\ profile_collection["u1"] # None
  /\ profile_collection["u1"].doc.parts.temperature = "cold"
  /\ profile_collection["u1"].doc.parts.favorite_drinks = <<"latte", "mocha">>

\* the promotions of the first n venues of a list, venue after venue
RECURSIVE PromotionsOfFirst(_, _)
PromotionsOfFirst(stores, n) ==
  IF n = 0 \/ stores = <<>> THEN <<>>
  ELSE (IF Head(stores).store_id \in DOMAIN PromotionsOf
        THEN PromotionsOf[Head(stores).store_id] ELSE <<>>)
       \o PromotionsOfFirst(Tail(stores), n - 1)

\* C24: the promotions of the bundle are empty in live mode, also when
\* the venues came from the simulated fallback; in simulated mode they are
\* the promotions of at most the first 3 nearby venues, in venue order.
C24_PromotionsOfFirstThree ==
  en_out # None =>
    en_out.promotions
      = IF en_in.use_mock_data THEN PromotionsOfFirst(en_out.nearby_stores, 3)
        ELSE <<>>

\* the fields of the pipeline state each stage owns
OwnedBy ==
  [context_enrichment |-> {"enriched_context", "long_term_memories"},
   rag_retrieval |-> {"rag_results"},
   pii_masking |-> {"masked_message", "masked_context", "pii_mapping"},
   llm_generation |-> {"llm_response"},
   unmask_response |-> {"final_response"},
   persona_update |-> {}]

\* C25: a stage writes only the fields it owns, so a field is unchanged by
\* every stage after its owner: the Unmask stage leaves pii_mapping and
\* llm_response as they are, the Learn stage leaves final_response and
\* every other field as they are, and process_message returns the value
\* the Unmask stage produced.
C25_OwnedFieldsOnly ==
  [][/\ pc \in DOMAIN OwnedBy =>
          \A f \in DOMAIN state \ OwnedBy[pc] : state'[f] = state[f]
     /\ pc = "unmask_response" /\ pc' = "persona_update" =>
          /\ state'.pii_mapping = state.pii_mapping
          /\ state'.llm_response = state.llm_response
     /\ pc = "persona_update" /\ pc' = "END" =>
          /\ state' = state
          /\ result' = state.final_response]_vars

\* all six stages ran on a masked message, the Unmask stage put the value
\* back, the Learn stage wrote a fact, and the reply returned is the
\* unmasked one
C25_Witness ==
  /\ pc = "END"
  /\ Len(ran) = 6
  /\ state.pii_mapping # <<>>
  /\ state.final_response # state.llm_response
  /\ result = state.final_response
  /\ profile_collection # SeededProfiles
  /\ Len(memory_collection) >= 2

\* C26: the memory collection is append-only with identifiers that never
\* collide: every save_memory call, however calls interleave, adds exactly
\* one entry whose identifier no entry had, leaves identifier, owner,
\* category, content and timestamp of the entries there as they are, and
\* no step removes an entry.
C26_AppendOnlyUniqueIds ==
  [][/\ Len(memory_collection') >= Len(memory_collection)
     /\ SubSeq(memory_collection', 1, Len(memory_collection)) = memory_collection
     /\ saves' = saves + 1 =>
          /\ Len(memory_collection') = Len(memory_collection) + 1
          /\ \A i \in 1..Len(memory_collection) :
               memory_collection[i].id
                 # memory_collection'[Len(memory_collection')].id]_vars

\* the last add_learned_preference call of the fact calls, the words of
\* its fact, and the update_user_profile calls made so far
FactCalled == Len(snaps) > 1 /\ learned # None

\* the first keyword of the list, in the order of the list, that the
\* words hold is x, or none is and x is the empty string
FirstOfList(keywords, words, x) ==
  \/ /\ x = ""
     /\ \A i \in 1..Len(keywords) : keywords[i] \notin words
  \/ \E i \in 1..Len(keywords) :
       /\ keywords[i] = x
       /\ x \in words
       /\ \A j \in 1..(i - 1) : keywords[j] \notin words

\* the one update_user_profile call of the last fact carries exactly the
\* temperature temp (when not empty), the first dietary keyword and the
\* first drink keyword of the words; no call was made when all are absent
CalledOnceWith(temp) ==
  LET words == learned.words
      n == Len(snaps) - 1
      last == merges[Len(merges)].updates
      field(key) == IF key \in DOMAIN last THEN last[key] ELSE ""
      none == /\ temp = ""
              /\ FirstOfList(dietary_keywords, words, "")
              /\ FirstOfList(drink_keywords, words, "")
  IN IF none
     THEN /\ snaps[n + 1] = snaps[n]
          /\ (n = 1 => merges = <<>>)
     ELSE /\ merges # <<>>
          /\ (n = 1 => Len(merges) = 1)
          /\ merges[Len(merges)].user_id = "u1"
          /\ DOMAIN last \subseteq {"set_temperature", "add_dietary", "add_favorite_drink"}
          /\ field("set_temperature") = temp
          /\ FirstOfList(dietary_keywords, words, field("add_dietary"))
          /\ FirstOfList(drink_keywords, words, field("add_favorite_drink"))
          /\ snaps[n + 1] = After(snaps[n], merges[Len(merges)])

\* C27 as amended: the three families contribute independently and at most
\* one update each; the temperature is hot when the fact holds "hot" and
\* one of "drink", "prefer", "like", else cold when it holds "cold" and one
\* of these, else cold when it holds "iced"; dietary and drink take the
\* first keyword of their list the fact holds; update_user_profile is
\* called once with all of them, and not at all when there is none.
C27_CuesWithVerb ==
  FactCalled =>
    LET words == learned.words
        verb == {"drink", "prefer", "like"} \cap words # {}
    IN CalledOnceWith(IF "hot" \in words /\ verb THEN "hot"
                      ELSE IF "cold" \in words /\ verb THEN "cold"
                      ELSE IF "iced" \in words THEN "cold" ELSE "")

\* C27 as stated: the temperature is hot when the fact holds "hot", else
\* cold when it holds "cold", else cold when it holds "iced".
C27_FirstCueWins ==
  FactCalled =>
    LET words == learned.words
    IN CalledOnceWith(IF "hot" \in words THEN "hot"
                      ELSE IF "cold" \in words THEN "cold"
                      ELSE IF "iced" \in words THEN "cold" ELSE "")

\* a fact with "hot" and "iced" but no verb, both dietary keywords and both
\* drink keywords: one call with cold, vegan and latte
C27_Witness ==
  /\ FactCalled
  /\ learned.words = {"hot", "iced", "vegan", "keto", "latte", "chai"}
  /\ Len(merges) = 1
  /\ merges[1].updates = [set_temperature |-> "cold", add_dietary |-> "vegan",
                          add_favorite_drink |-> "latte"]

\* C28: initialize_vectorstore is idempotent: a call, wherever it falls
\* between merges and saves, leaves the knowledge base holding each seeded
\* document once, changes nothing once the knowledge base is seeded, never
\* replaces a profile entry that is there and never removes a memory entry.
C28_InitializeIdempotent ==
  [][inits' = inits + 1 =>
       /\ store_collection' = KnowledgeBase
       /\ memory_collection' = memory_collection
       /\ \A u \in DOMAIN profile_collection :
            profile_collection[u] # None => profile_collection'[u] = profile_collection[u]
       /\ store_collection # <<>> => profile_collection' = profile_collection]_vars

\* initialize_vectorstore was called twice, and the collections hold the
\* seeded documents once, a merged profile and a saved entry
C28_Witness ==
  /\ inits = MaxInits
  /\ store_collection = KnowledgeBase
  /\ profile_collection["u1"] # None
  /\ profile_collection["u1"].profile_json.preferences.preferred_temperature = "cold"
  /\ profile_collection["u3"] # None
  /\ memory_collection # <<>>

\* C29: without credentials an invocation still runs its six stages to
\* the end and returns the sentinel as the Generate stage set it; no prompt
\* goes to the generation service and the profile collection and the
\* memory collection stay as the request found them.
C29_MissingKeyCompletes ==
  (~api_key /\ request # None /\ pc \in {"END", "raised"}) =>
    /\ pc = "END"
    /\ ran = Nodes
    /\ state.llm_response = Sentinel
    /\ result = Sentinel
    /\ prompts = <<>>
    /\ profile_collection = before.profiles
    /\ memory_collection = before.memories

====
